---- MODULE Spec2Model ----
(***************************************************************************)
(* A model of the rendering core of EdgeOS_API:                            *)
(*   app/core/invoice.py       format_currency, generate_invoice_pdf,      *)
(*                             CroppedImageFitWidth.draw                   *)
(*   app/core/edge_wrapped.py  create_framed_image, generate_edge_wrapped  *)
(*                                                                         *)
(* Text is a sequence of one-character strings, so that formatting,        *)
(* splitting and joining are computed character by character.              *)
(* A number that Python holds in a float is a pair [num, den] of           *)
(* integers, den > 0, and the arithmetic on it is exact.                   *)
(***************************************************************************)
EXTENDS Integers, Sequences, FiniteSets, TLC

VARIABLES
    pc,            \* position of the call being modelled
    \* format_currency
    value,         \* the value argument, [num, den]
    currency,      \* the currency code
    formatted,     \* the returned text
    \* generate_invoice_pdf
    discount,      \* the discount argument: <<>> is None
    payment,       \* the payment: currency, rate, amount, products_snapshot
    header_image,  \* the header_image argument: <<>> is None
    doc_width,     \* doc.width, the usable page width
    flow,          \* the flowables appended so far
    table_data,    \* the header row and the body rows
    measured,      \* the widest measured cell of each column
    widths,        \* qty_w, desc_w, unit_w, discount_w, rate_w, amount_w
    col_widths,    \* the list handed to the Table
    image_fault,   \* which step of the header image failed, if any
    result,        \* what the call returned, or that it raised
    \* generate_edge_wrapped
    popups,        \* the popups argument: the location names
    catalog,       \* the names of the files in static/images
    canvas_width,  \* the width of the background frame, in pixels
    canvas_height, \* the height of the background frame, in pixels
    center_size,   \* the size of the photo, kept by the intermediate image
    layout,        \* where the photo is pasted and the text block starts
    locations,     \* the matched names of popups_map
    codes,         \* the codes of the matched names
    villages_count,\* the number of matched names
    ai_image_path, \* the source photo picked from the catalog
    subtitle_lines,\* the caption lines drawn under the photo
    fs,            \* the temporary files that exist
    outcome,       \* how the call ended: the final path, or the error
    \* CroppedImageFitWidth.draw
    box,           \* box_w and box_h of the flowable
    image_size,    \* iw and ih, from self.reader.getSize()
    drawn          \* what the canvas was given: <<>> is nothing

(***************************************************************************)
(* Text helpers.                                                           *)
(***************************************************************************)
Digits == <<"0", "1", "2", "3", "4", "5", "6", "7", "8", "9">>

IsDigit(c) == \E i \in 1..10 : Digits[i] = c

\* str(n) for a natural number n
RECURSIVE IntToText(_)
IntToText(n) ==
    IF n < 10 THEN <<Digits[n + 1]>>
    ELSE IntToText(n \div 10) \o <<Digits[(n % 10) + 1]>>

\* str.replace(old, new) for one-character old and new
RECURSIVE Replace(_, _, _)
Replace(s, old, new) ==
    IF Len(s) = 0 THEN <<>>
    ELSE <<IF s[1] = old THEN new ELSE s[1]>> \o Replace(Tail(s), old, new)

LowerCase == <<"a", "b", "c", "d", "e", "f", "g", "h", "i", "j", "k", "l", "m",
               "n", "o", "p", "q", "r", "s", "t", "u", "v", "w", "x", "y", "z">>
UpperCase == <<"A", "B", "C", "D", "E", "F", "G", "H", "I", "J", "K", "L", "M",
               "N", "O", "P", "Q", "R", "S", "T", "U", "V", "W", "X", "Y", "Z">>

UpperChar(c) ==
    IF \E i \in 1..Len(LowerCase) : LowerCase[i] = c
    THEN UpperCase[CHOOSE i \in 1..Len(LowerCase) : LowerCase[i] = c]
    ELSE c

LowerChar(c) ==
    IF \E i \in 1..Len(UpperCase) : UpperCase[i] = c
    THEN LowerCase[CHOOSE i \in 1..Len(UpperCase) : UpperCase[i] = c]
    ELSE c

\* str.upper() and str.lower()
RECURSIVE Upper(_)
Upper(s) ==
    IF Len(s) = 0 THEN <<>> ELSE <<UpperChar(s[1])>> \o Upper(Tail(s))

RECURSIVE Lower(_)
Lower(s) ==
    IF Len(s) = 0 THEN <<>> ELSE <<LowerChar(s[1])>> \o Lower(Tail(s))

\* sep occurs in s at position i
OccursAt(s, sep, i) ==
    /\ i + Len(sep) - 1 <= Len(s)
    /\ SubSeq(s, i, i + Len(sep) - 1) = sep

\* `sub in s`
Contains(s, sub) == \E i \in 1..(Len(s) + 1) : OccursAt(s, sub, i)

\* s.split(sep), for a non-empty sep
RECURSIVE Split(_, _)
Split(s, sep) ==
    IF ~Contains(s, sep) THEN <<s>>
    ELSE LET i == CHOOSE k \in 1..Len(s) :
                      /\ OccursAt(s, sep, k)
                      /\ \A j \in 1..(k - 1) : ~OccursAt(s, sep, j)
         IN  <<SubSeq(s, 1, i - 1)>>
                 \o Split(SubSeq(s, i + Len(sep), Len(s)), sep)

\* sep.join(parts)
RECURSIVE Join(_, _)
Join(parts, sep) ==
    IF Len(parts) = 0 THEN <<>>
    ELSE IF Len(parts) = 1 THEN parts[1]
    ELSE parts[1] \o sep \o Join(Tail(parts), sep)

(***************************************************************************)
(* format(value, ',.<decimals>f'): fixed-point text of a non-negative      *)
(* value, rounded to the nearest, ties to even.                            *)
(***************************************************************************)
\* the first k digits of rem/den after the decimal point, and what remains
RECURSIVE FracDigits(_, _, _)
FracDigits(rem, den, k) ==
    IF k = 0 THEN [digits |-> <<>>, rem |-> rem]
    ELSE LET d    == (10 * rem) \div den
             rest == FracDigits((10 * rem) % den, den, k - 1)
         IN  [digits |-> <<d>> \o rest.digits, rem |-> rest.rem]

\* a digit sequence plus one: the digits and the carry out of the first
RECURSIVE AddOne(_)
AddOne(ds) ==
    IF Len(ds) = 0 THEN [digits |-> <<>>, carry |-> 1]
    ELSE LET last == ds[Len(ds)]
             head == SubSeq(ds, 1, Len(ds) - 1)
         IN  IF last < 9
             THEN [digits |-> Append(head, last + 1), carry |-> 0]
             ELSE LET r == AddOne(head)
                  IN  [digits |-> Append(r.digits, 0), carry |-> r.carry]

\* value rounded to `decimals` places: its integer part and fraction digits
Rounded(v, decimals) ==
    LET ip   == v.num \div v.den
        f    == FracDigits(v.num % v.den, v.den, decimals)
        last == IF decimals = 0 THEN ip % 2 ELSE f.digits[decimals] % 2
        up   == 2 * f.rem > v.den \/ (2 * f.rem = v.den /\ last = 1)
        inc  == AddOne(f.digits)
    IN  IF up THEN [int |-> ip + inc.carry, frac |-> inc.digits]
        ELSE [int |-> ip, frac |-> f.digits]

\* the ',' option: a comma before every group of three integer digits
RECURSIVE Grouped(_)
Grouped(s) ==
    IF Len(s) <= 3 THEN s
    ELSE Grouped(SubSeq(s, 1, Len(s) - 3)) \o <<",">>
             \o SubSeq(s, Len(s) - 2, Len(s))

RECURSIVE DigitText(_)
DigitText(ds) ==
    IF Len(ds) = 0 THEN <<>> ELSE <<Digits[ds[1] + 1]>> \o DigitText(Tail(ds))

FixedPoint(v, decimals, grouping) ==
    LET r  == Rounded(v, decimals)
        ip == IntToText(r.int)
    IN  (IF grouping THEN Grouped(ip) ELSE ip)
            \o (IF decimals = 0 THEN <<>> ELSE <<".">> \o DigitText(r.frac))

(***************************************************************************)
(* invoice.py: the money formatters.                                       *)
(***************************************************************************)
_format_money(v, decimals) ==
    LET s == FixedPoint(v, decimals, TRUE)
    IN  Replace(Replace(Replace(s, ",", "X"), ".", ","), "X", ".")

format_money(v) == _format_money(v, 2)

\* a variant that compares the code as given, without upper()
is_crypto_currency_case_sensitive(code) ==
    code \in {<<"B", "T", "C">>, <<"E", "T", "H">>}

is_crypto_currency(code) ==
    Upper(code) \in {<<"B", "T", "C">>, <<"E", "T", "H">>}

format_currency(v, code) ==
    LET decimals == IF is_crypto_currency(code) THEN 8 ELSE 2
    IN  _format_money(v, decimals)

(***************************************************************************)
(* Exact arithmetic on [num, den] pairs, den > 0, kept in lowest terms.    *)
(***************************************************************************)
RECURSIVE GCD(_, _)
GCD(a, b) == IF b = 0 THEN a ELSE GCD(b, a % b)

Abs(n) == IF n < 0 THEN 0 - n ELSE n

Rat(n) == [num |-> n, den |-> 1]

Norm(n, d) ==
    LET g == GCD(Abs(n), d)
    IN  [num |-> n \div g, den |-> d \div g]

RAdd(a, b) ==
    IF a.den = b.den
    THEN IF a.den = 1 THEN Rat(a.num + b.num)
         ELSE Norm(a.num + b.num, a.den)
    ELSE LET l == (a.den \div GCD(a.den, b.den)) * b.den
         IN  Norm(a.num * (l \div a.den) + b.num * (l \div b.den), l)

RNeg(a) == [num |-> 0 - a.num, den |-> a.den]

RSub(a, b) == RAdd(a, RNeg(b))

\* a * b, cancelling across the two fractions before multiplying
RMul(a, b) ==
    IF a.den = 1 /\ b.den = 1 THEN Rat(a.num * b.num)
    ELSE LET g1 == GCD(Abs(a.num), b.den)
             g2 == GCD(Abs(b.num), a.den)
         IN  Norm((a.num \div g1) * (b.num \div g2),
                  (a.den \div g2) * (b.den \div g1))

\* a / b for b > 0
RDiv(a, b) == RMul(a, [num |-> b.den, den |-> b.num])

RLt(a, b) == RSub(a, b).num < 0
RLe(a, b) == RSub(a, b).num <= 0
RMax(a, b) == IF RLt(a, b) THEN b ELSE a

RECURSIVE RSum(_)
RSum(s) == IF Len(s) = 0 THEN Rat(0) ELSE RAdd(s[1], RSum(Tail(s)))

(***************************************************************************)
(* invoice.py, generate_invoice_pdf: the table (lines 176-222).            *)
(* An Optional argument is a sequence of at most one element: <<>> is None.*)
(***************************************************************************)
IsNone(opt) == Len(opt) = 0

\* a variant that tests the truthiness of the discount: `if discount:`
show_discount_truthy(disc) == ~IsNone(disc) /\ disc[1] # 0

show_discount(disc) == ~IsNone(disc)

\* a variant that shows the rate whenever it is not 1
show_rate_not_one(pay) == pay.rate # Rat(1)

show_rate(pay) == RLt(Rat(1), pay.rate)

Headers(disc, pay) ==
    <<"Quantity", "Description", "Unit Price">>
        \o (IF show_discount(disc) THEN <<"Discount">> ELSE <<>>)
        \o (IF show_rate(pay) THEN <<"Rate">> ELSE <<>>)
        \o <<"Amount">>

\* 1 - (discount or 0) / 100
DiscountFactor(disc) ==
    LET d == IF IsNone(disc) THEN 0 ELSE disc[1]
    IN  RSub(Rat(1), RDiv(Rat(d), Rat(100)))

\* f'{discount:.0f}%'
DiscountCell(disc) == FixedPoint(Rat(disc[1]), 0, FALSE) \o <<"%">>

\* f'{format_money(unit_price_usd)} USD'
UnitPriceCell(item) ==
    format_money(item.product_price) \o <<" ", "U", "S", "D">>

\* f'1 {payment.currency} = {format_money(payment.rate)} USD'
RateCell(pay) ==
    <<"1", " ">> \o pay.currency \o <<" ", "=", " ">>
        \o format_money(pay.rate) \o <<" ", "U", "S", "D">>

\* f'{format_currency(total_after_discount, payment.currency)} {payment.currency}'
AmountCell(total_after_discount, pay) ==
    format_currency(total_after_discount, pay.currency)
        \o <<" ">> \o pay.currency

Row(item, disc, pay) ==
    LET unit_price_usd == item.product_price
        qty            == item.quantity
    IN  IF show_rate(pay)
        THEN LET unit_in_currency     == RDiv(unit_price_usd, pay.rate)
                 total_unit           == RMul(unit_in_currency, Rat(qty))
                 total_after_discount ==
                     RMul(total_unit, DiscountFactor(disc))
                 description ==
                     item.product_name \o <<" ", "-", " ">>
                         \o pay.popup_name
             IN  <<IntToText(qty), description, UnitPriceCell(item)>>
                     \o (IF show_discount(disc)
                         THEN <<DiscountCell(disc)>> ELSE <<>>)
                     \o <<RateCell(pay)>>
                     \o <<AmountCell(total_after_discount, pay)>>
        ELSE LET total_unit           == RMul(unit_price_usd, Rat(qty))
                 total_after_discount ==
                     RMul(total_unit, DiscountFactor(disc))
             IN  <<IntToText(qty), item.product_name, UnitPriceCell(item)>>
                     \o (IF show_discount(disc)
                         THEN <<DiscountCell(disc)>> ELSE <<>>)
                     \o <<AmountCell(total_after_discount, pay)>>

TableData(disc, pay) ==
    <<Headers(disc, pay)>>
        \o [i \in 1..Len(pay.products_snapshot) |->
                Row(pay.products_snapshot[i], disc, pay)]

\* a variant that adds up the line items instead of taking payment.amount
Total_FromItems(pay) ==
    LET items == pay.products_snapshot
        sum   == RSum([i \in 1..Len(items) |->
                          RMul(items[i].product_price,
                               Rat(items[i].quantity))])
    IN  IF show_rate(pay) THEN RDiv(sum, pay.rate) ELSE sum

\* the footer: f'Total: {format_currency(total, payment.currency)} {payment.currency}'
Total(pay) ==
    IF show_rate(pay) THEN RDiv(pay.amount, pay.rate)
    ELSE pay.amount

TotalText(pay) ==
    <<"T", "o", "t", "a", "l", ":", " ">>
        \o format_currency(Total(pay), pay.currency)
        \o <<" ">> \o pay.currency


(***************************************************************************)
(* invoice.py, CroppedImageFitWidth.draw (lines 69-87). Lengths are exact  *)
(* fractions; the image size is in pixels.                                 *)
(***************************************************************************)
\* scale = self.box_w / float(iw)
DrawScale(box_w, iw) == RDiv(Rat(box_w), Rat(iw))

\* a variant that stretches the image to the height of the box
draw_h_Stretched(box_h, ih, s) == Rat(box_h)

\* draw_h = ih * scale
draw_h(box_h, ih, s) == RMul(Rat(ih), s)

\* dy = (self.box_h - draw_h) / 2.0
draw_dy(box_h, h) == RDiv(RSub(Rat(box_h), h), Rat(2))

\* lines 82-87: the clip rectangle and the drawImage call
DrawOps(b, size) ==
    LET h == draw_h(b.box_h, size.ih, DrawScale(b.box_w, size.iw))
    IN  [ clip   |-> <<0, 0, b.box_w, b.box_h>>,
          dx     |-> 0,
          dy     |-> draw_dy(b.box_h, h),
          width  |-> Rat(b.box_w),
          height |-> h ]
(***************************************************************************)
(* invoice.py, generate_invoice_pdf: the column widths (lines 224-304).    *)
(* A length is a number of units of 1/36 mm. reportlab's mm is 72/25.4     *)
(* points, so that one mm is 36 units and ten points are 127 units.        *)
(***************************************************************************)
mm == 36
TenPoints == 127

qty_min == 12 * mm
unit_min == 24 * mm
amount_min == 28 * mm
discount_min == 16 * mm
rate_min == 36 * mm
desc_min == 30 * mm

\* paddings (left+right = 8 points) and a buffer of 2 points
pad == ((8 + 2) * TenPoints) \div 10

\* Python's 0-based positions of the optional columns and of Amount
discount_idx(disc, pay) ==
    IF show_discount(disc) THEN <<3>> ELSE <<>>

rate_idx(disc, pay) ==
    IF show_rate(pay)
    THEN <<3 + (IF show_discount(disc) THEN 1 ELSE 0)>>
    ELSE <<>>

amount_idx(disc, pay) ==
    3 + (IF show_discount(disc) THEN 1 ELSE 0)
      + (IF show_rate(pay) THEN 1 ELSE 0)

\* The widths before any scaling, from the widest measured cell of each
\* column: m.max_discount and m.max_rate are 0 for an absent column.
InitialWidths(m, has_discount, has_rate) ==
    [ qty_w      |-> Rat(IF qty_min > m.max_qty + pad
                         THEN qty_min ELSE m.max_qty + pad),
      unit_w     |-> Rat(IF unit_min > m.max_unit + pad
                         THEN unit_min ELSE m.max_unit + pad),
      amount_w   |-> Rat(IF amount_min > m.max_amount + pad
                         THEN amount_min ELSE m.max_amount + pad),
      discount_w |-> IF has_discount
                     THEN Rat(IF discount_min > m.max_discount + pad
                              THEN discount_min ELSE m.max_discount + pad)
                     ELSE Rat(0),
      rate_w     |-> IF has_rate
                     THEN Rat(IF rate_min > m.max_rate + pad
                              THEN rate_min ELSE m.max_rate + pad)
                     ELSE Rat(0) ]

OtherSum(w) ==
    RSum(<<w.qty_w, w.unit_w, w.amount_w, w.discount_w, w.rate_w>>)

\* a variant without the 0.6 * doc.width share
TargetOther_NoShare(W) == RSub(W, Rat(desc_min))

\* max(doc.width - desc_min, doc.width * 0.6)
TargetOther(W) ==
    RMax(RSub(W, Rat(desc_min)), RMul(W, [num |-> 6, den |-> 10]))

\* a variant that leaves the discount column unscaled
ScaledWidths_DiscountUnscaled(w, scale, has_discount, has_rate) ==
    [ qty_w      |-> RMul(w.qty_w, scale),
      unit_w     |-> RMul(w.unit_w, scale),
      amount_w   |-> RMul(w.amount_w, scale),
      discount_w |-> w.discount_w,
      rate_w     |-> IF has_rate THEN RMul(w.rate_w, scale)
                     ELSE w.rate_w ]

ScaledWidths(w, scale, has_discount, has_rate) ==
    [ qty_w      |-> RMul(w.qty_w, scale),
      unit_w     |-> RMul(w.unit_w, scale),
      amount_w   |-> RMul(w.amount_w, scale),
      discount_w |-> IF has_discount THEN RMul(w.discount_w, scale)
                     ELSE w.discount_w,
      rate_w     |-> IF has_rate THEN RMul(w.rate_w, scale)
                     ELSE w.rate_w ]

WithDesc(w, desc_w) ==
    [ qty_w |-> w.qty_w, unit_w |-> w.unit_w, amount_w |-> w.amount_w,
      discount_w |-> w.discount_w, rate_w |-> w.rate_w, desc_w |-> desc_w ]

\* a variant without the fallback: the description column takes what is left
AllocateWidths_NeverScales(W, w, has_discount, has_rate) ==
    WithDesc(w, RSub(W, OtherSum(w)))

\* lines 280-297: the description column takes what is left; when that is
\* below desc_min the other columns are scaled down
AllocateWidths(W, w, has_discount, has_rate) ==
    LET other_sum == OtherSum(w)
        desc_w    == RSub(W, other_sum)
    IN  IF RLt(desc_w, Rat(desc_min))
        THEN IF RLe(other_sum, Rat(0))
             THEN WithDesc(w, W)
             ELSE LET target_other == TargetOther(W)
                      scale        == RDiv(target_other, other_sum)
                      s            == ScaledWidths(w, scale, has_discount,
                                                   has_rate)
                  IN  WithDesc(s, RMax(Rat(desc_min), RSub(W, OtherSum(s))))
        ELSE WithDesc(w, desc_w)

\* a variant that appends the rate width before the discount width
ColWidths_RateFirst(w, has_discount, has_rate) ==
    <<w.qty_w, w.desc_w, w.unit_w>>
        \o (IF has_rate THEN <<w.rate_w>> ELSE <<>>)
        \o (IF has_discount THEN <<w.discount_w>> ELSE <<>>)
        \o <<w.amount_w>>

\* lines 299-304
ColWidths(w, has_discount, has_rate) ==
    <<w.qty_w, w.desc_w, w.unit_w>>
        \o (IF has_discount THEN <<w.discount_w>> ELSE <<>>)
        \o (IF has_rate THEN <<w.rate_w>> ELSE <<>>)
        \o <<w.amount_w>>

(***************************************************************************)
(* edge_wrapped.py, create_framed_image: the caption (lines 186-216).      *)
(***************************************************************************)
\* The width of a text's bounding box in the subtitle font, in pixels: the
\* sum of the advances of its characters, ',' and ' ' being the narrow ones.
CharWidth(c) == IF c \in {",", " "} THEN 20 ELSE 40

RECURSIVE TextWidth(_)
TextWidth(s) ==
    IF Len(s) = 0 THEN 0 ELSE CharWidth(s[1]) + TextWidth(Tail(s))

\* ', '.join(popups).upper()
SubtitleText(names) == Upper(Join(names, <<",", " ">>))

\* canvas_width - 40: 20 px of padding on each side
AvailableTextWidth(width) == width - 40

\* a variant that closes a line without the ','
RECURSIVE WrapLoop_NoTrailingComma(_, _, _, _)
WrapLoop_NoTrailingComma(words, current_line, lines, available) ==
    IF Len(words) = 0 THEN Append(lines, current_line)
    ELSE LET word      == words[1]
             test_line == current_line \o <<",", " ">> \o word
         IN  IF TextWidth(test_line) <= available
             THEN WrapLoop_NoTrailingComma(Tail(words), test_line, lines,
                                           available)
             ELSE WrapLoop_NoTrailingComma(Tail(words), word,
                                           Append(lines, current_line),
                                           available)

\* the loop of lines 203-214 over the words after the first, with the line
\* being filled and the lines already closed
RECURSIVE WrapLoop(_, _, _, _)
WrapLoop(words, current_line, lines, available) ==
    IF Len(words) = 0 THEN Append(lines, current_line)
    ELSE LET word      == words[1]
             test_line == current_line \o <<",", " ">> \o word
         IN  IF TextWidth(test_line) <= available
             THEN WrapLoop(Tail(words), test_line, lines, available)
             ELSE WrapLoop(Tail(words), word,
                           Append(lines, current_line \o <<",">>), available)

SubtitleLines(names, width) ==
    LET subtitle_text == SubtitleText(names)
        available     == AvailableTextWidth(width)
    IN  IF TextWidth(subtitle_text) > available
        THEN LET words == Split(subtitle_text, <<",", " ">>)
             IN  WrapLoop(Tail(words), words[1], <<>>, available)
        ELSE <<subtitle_text>>

(***************************************************************************)
(* edge_wrapped.py, generate_edge_wrapped (lines 318-365).                 *)
(***************************************************************************)
popups_map ==
    << <<<<"A", "u", "s", "t", "i", "n">>, <<"A", "U">>>>,
       <<<<"S", "o", "u", "t", "h", " ", "A", "f", "r", "i", "c", "a">>,
         <<"S", "A">>>>,
       <<<<"P", "a", "t", "a", "g", "o", "n", "i", "a">>, <<"A", "R">>>>,
       <<<<"L", "a", "n", "n", "a">>, <<"T", "H">>>>,
       <<<<"E", "s", "m", "e", "r", "a", "l", "d", "a">>, <<"C", "A">>>>,
       <<<<"B", "h", "u", "t", "a", "n">>, <<"B", "H">>>> >>

\* the entries of popups_map whose name occurs in the popup, in table order
MatchingEntries(popup) ==
    LET lowered == Lower(popup)
    IN  {i \in 1..Len(popups_map) :
            Contains(lowered, Lower(popups_map[i][1]))}

\* a variant of the inner loop without the break: the last matching entry
FirstEntry_Last(popup) ==
    LET entries == MatchingEntries(popup)
    IN  CHOOSE i \in entries : \A j \in entries : i >= j

\* the entry the inner loop stops at (break), for a popup that matches one
FirstEntry(popup) ==
    LET entries == MatchingEntries(popup)
    IN  CHOOSE i \in entries : \A j \in entries : i <= j

Matched(names) ==
    {k \in 1..Len(names) : MatchingEntries(names[k]) # {}}

Locations(names) ==
    {popups_map[FirstEntry(names[k])][1] : k \in Matched(names)}

Codes(names) ==
    {popups_map[FirstEntry(names[k])][2] : k \in Matched(names)}

\* set(filename.split('-')) for filename = entry.name.split('.')[0]
CodesOfFile(name) ==
    LET filename == Split(name, <<".">>)[1]
        parts    == Split(filename, <<"-">>)
    IN  {parts[i] : i \in 1..Len(parts)}

\* a variant that accepts a file naming the requested codes among others
ImagesFor_Superset(cs, files) == {f \in files : cs \subseteq CodesOfFile(f)}

\* _get_ai_image: the files whose codes are exactly the requested ones; the
\* scan returns the first of them in the directory's order, which is any
ImagesFor(cs, files) == {f \in files : cs = CodesOfFile(f)}


(***************************************************************************)
(* edge_wrapped.py, create_framed_image: the geometry (lines 147-167 and   *)
(* 218-253), in pixels. Python's int() truncates towards zero and // is    *)
(* the floor division, as \div is.                                         *)
(***************************************************************************)
padding == 150
line_spacing == 10
text_spacing == 20

available_width(cw) == cw - (padding * 2)

available_height(ch) == ch - (padding * 2) - 200

\* int(n * a / b) for b > 0
IntOfProduct(n, a, b) ==
    IF n * a >= 0 THEN (n * a) \div b ELSE 0 - ((0 - (n * a)) \div b)

\* min(available_width / center_width, available_height / center_height) is
\* its first argument
WidthBound(center, cw, ch) ==
    available_width(cw) * center.height
        <= available_height(ch) * center.width

\* int(center_width * scale)
new_width(center, cw, ch) ==
    IF WidthBound(center, cw, ch)
    THEN IntOfProduct(center.width, available_width(cw), center.width)
    ELSE IntOfProduct(center.width, available_height(ch), center.height)

\* int(center_height * scale)
new_height(center, cw, ch) ==
    IF WidthBound(center, cw, ch)
    THEN IntOfProduct(center.height, available_width(cw), center.width)
    ELSE IntOfProduct(center.height, available_height(ch), center.height)

\* a variant that keeps the photo at the nominal padding from the left
paste_x_AtPadding(cw, nw) == padding

\* x = (canvas_width - new_width) // 2
paste_x(cw, nw) == (cw - nw) \div 2

\* y = actual_side_padding - 5
paste_y(side_padding) == side_padding - 5

\* lines 227-232, for n caption lines
total_text_height(title_height, subtitle_line_height, n) ==
    title_height + text_spacing + (subtitle_line_height * n)
        + (line_spacing * (n - 1))

\* lines 147-164 and 218-238: where the photo is pasted and where the text
\* block starts
FrameLayout(center, cw, ch, title_height, subtitle_line_height, n) ==
    LET nw    == new_width(center, cw, ch)
        nh    == new_height(center, cw, ch)
        px    == paste_x(cw, nw)
        py    == paste_y(px)
        total == total_text_height(title_height, subtitle_line_height, n)
        space_below_image == ch - (py + nh)
    IN  [ new_width         |-> nw,
          new_height        |-> nh,
          x                 |-> px,
          y                 |-> py,
          total_text_height |-> total,
          text_start_y      |-> py + nh + ((space_below_image - total) \div 2) ]

NoLayout ==
    [ new_width |-> 0, new_height |-> 0, x |-> 0, y |-> 0,
      total_text_height |-> 0, text_start_y |-> 0 ]
(***************************************************************************)
(* The variables by call.                                                  *)
(***************************************************************************)
moneyVars == <<value, currency, formatted>>

invoiceVars == <<discount, payment, header_image, doc_width, flow,
                 table_data, measured, widths, col_widths, image_fault,
                 result>>

edgeVars == <<popups, catalog, canvas_width, canvas_height, center_size,
              layout, locations, codes, villages_count, ai_image_path,
              subtitle_lines, fs, outcome>>

drawVars == <<box, image_size, drawn>>

vars == <<pc, moneyVars, invoiceVars, edgeVars, drawVars>>

NoText == <<"-">>
NoMeasure ==
    [max_qty |-> 0, max_unit |-> 0, max_amount |-> 0, max_discount |-> 0,
     max_rate |-> 0]
NoWidths == WithDesc(InitialWidths(NoMeasure, FALSE, FALSE), Rat(0))
NoSize == [width |-> 0, height |-> 0]
NoPayment ==
    [currency |-> <<>>, rate |-> Rat(1), amount |-> Rat(0),
     products_snapshot |-> <<>>, popup_name |-> <<>>]

MoneyIdle ==
    /\ value = Rat(0)
    /\ currency = <<>>
    /\ formatted = NoText

InvoiceIdle ==
    /\ discount = <<>>
    /\ payment = NoPayment
    /\ header_image = <<>>
    /\ doc_width = 0
    /\ flow = <<>>
    /\ table_data = <<>>
    /\ measured = NoMeasure
    /\ widths = NoWidths
    /\ col_widths = <<>>
    /\ image_fault = "none"
    /\ result = [kind |-> "running"]

EdgeIdle ==
    /\ popups = <<>>
    /\ catalog = {}
    /\ canvas_width = 0
    /\ canvas_height = 0
    /\ center_size = NoSize
    /\ layout = NoLayout
    /\ locations = {}
    /\ codes = {}
    /\ villages_count = 0
    /\ ai_image_path = <<>>
    /\ subtitle_lines = <<>>
    /\ fs = {}
    /\ outcome = "running"

DrawIdle ==
    /\ box = [box_w |-> 0, box_h |-> 0]
    /\ image_size = [iw |-> 0, ih |-> 0]
    /\ drawn = <<>>

(***************************************************************************)
(* Calls of format_currency on bounded inputs.                             *)
(***************************************************************************)
\* No value below is a decimal tie that a float cannot hold exactly (such as
\* 0.005): n/8 is exact in binary, and no n/1000 here ends in 5.
MoneyNums == {0, 1, 7, 12, 999, 1000, 1006, 99996, 123456, 999999, 1234567,
              99999996}
MoneyDens == {1, 8, 100, 1000}
MoneyValues == [num : MoneyNums, den : MoneyDens]

CurrencyCodes ==
    { <<"B", "T", "C">>, <<"b", "t", "c">>, <<"E", "t", "h">>,
      <<"E", "U", "R">>, <<"u", "s", "d">>, <<"B", "T", "C", "X">> }

InitMoney ==
    /\ pc = "money"
    /\ value \in MoneyValues
    /\ currency \in CurrencyCodes
    /\ formatted = NoText
    /\ InvoiceIdle
    /\ EdgeIdle
    /\ DrawIdle

FormatCurrency ==
    /\ pc = "money"
    /\ formatted' = format_currency(value, currency)
    /\ pc' = "money_done"
    /\ UNCHANGED <<value, currency, invoiceVars, edgeVars, drawVars>>

NextMoney == FormatCurrency

SpecMoney == InitMoney /\ [][NextMoney]_vars

(***************************************************************************)
(* Calls of generate_invoice_pdf on bounded inputs.                        *)
(***************************************************************************)
MaxItems == 1

SeqsUpTo(S, n) == UNION {[1..k -> S] : k \in 0..n}

Items ==
    { [product_name |-> <<"P", "a", "s", "s">>,
       product_price |-> Rat(100), quantity |-> 2] }

Rates == {[num |-> 23, den |-> 25], Rat(1), [num |-> 5, den |-> 4]}

Payments ==
    [ currency          : {<<"E", "U", "R">>, <<"B", "T", "C">>},
      rate              : Rates,
      amount            : {Rat(250)},
      products_snapshot : SeqsUpTo(Items, MaxItems),
      popup_name        : {<<"A", "u", "s", "t", "i", "n">>} ]

Discounts == {<<>>, <<0>>, <<10>>}

HeaderImages == {<<>>, <<[scheme |-> "https"]>>, <<[scheme |-> ""]>>}

\* The source fixes the page: A4 with 15 mm margins, so doc.width is 180 mm.
\* The allocation is stated for any usable width, so narrower ones are tried.
DocWidths == {60 * mm, 100 * mm, 180 * mm}

\* what measure() may return for the widest cell of a column
MeasuredWidths == {2 * TenPoints, 10 * TenPoints, 40 * TenPoints}

Measurements(has_discount, has_rate) ==
    [ max_qty      : MeasuredWidths,
      max_unit     : MeasuredWidths,
      max_amount   : MeasuredWidths,
      max_discount : IF has_discount THEN MeasuredWidths ELSE {0},
      max_rate     : IF has_rate THEN MeasuredWidths ELSE {0} ]

InitInvoice ==
    /\ pc = "inv_start"
    /\ discount \in Discounts
    /\ payment \in Payments
    /\ header_image \in HeaderImages
    /\ doc_width \in DocWidths
    /\ flow = <<>>
    /\ table_data = <<>>
    /\ measured = NoMeasure
    /\ widths = NoWidths
    /\ col_widths = <<>>
    /\ image_fault = "none"
    /\ result = [kind |-> "running"]
    /\ MoneyIdle
    /\ EdgeIdle
    /\ DrawIdle

\* line 127: no header image was given
HeaderImageAbsent ==
    /\ pc = "inv_start"
    /\ IsNone(header_image)
    /\ pc' = "inv_table"
    /\ UNCHANGED <<moneyVars, edgeVars, drawVars, invoiceVars>>

\* lines 128-140: the image was fetched and opened
HeaderImageLoaded ==
    /\ pc = "inv_start"
    /\ ~IsNone(header_image)
    /\ flow' = flow \o <<"banner", "spacer">>
    /\ pc' = "inv_table"
    /\ UNCHANGED <<moneyVars, edgeVars, drawVars, discount, payment,
                   header_image, doc_width,
                   table_data, measured, widths, col_widths, image_fault,
                   result>>

\* what may raise inside the try block: urlopen for a URL, and ImageReader
\* (which opens the source) for a URL or a path
FaultsInTry(image) ==
    IF image.scheme \in {"http", "https"}
    THEN {"fetch", "open"}
    ELSE {"open"}

\* lines 141-143: the exception is swallowed
HeaderImageFailed ==
    /\ pc = "inv_start"
    /\ ~IsNone(header_image)
    /\ \E fault \in FaultsInTry(header_image[1]) : image_fault' = fault
    /\ pc' = "inv_table"
    /\ UNCHANGED <<moneyVars, edgeVars, drawVars, discount, payment,
                   header_image, doc_width,
                   flow, table_data, measured, widths, col_widths, result>>

\* lines 145-222: title, seller and meta block, header row and body rows
BuildTable ==
    /\ pc = "inv_table"
    /\ flow' = flow \o <<"title", "spacer", "header_tbl", "spacer">>
    /\ table_data' = TableData(discount, payment)
    /\ pc' = "inv_layout"
    /\ UNCHANGED <<moneyVars, edgeVars, drawVars, discount, payment,
                   header_image, doc_width,
                   measured, widths, col_widths, image_fault, result>>

HasBanner(f) == \E i \in 1..Len(f) : f[i] = "banner"

\* lines 224-335: measure, allocate, append the table and the total line
LayoutTable ==
    /\ LET has_discount == ~IsNone(discount_idx(discount, payment))
           has_rate     == ~IsNone(rate_idx(discount, payment))
       IN  \E m \in Measurements(has_discount, has_rate) :
             LET w == AllocateWidths(Rat(doc_width),
                                     InitialWidths(m, has_discount, has_rate),
                                     has_discount, has_rate)
             IN  /\ measured' = m
                 /\ widths' = w
                 /\ col_widths' = ColWidths(w, has_discount, has_rate)
    /\ flow' = flow \o <<"table", "spacer", <<"total", TotalText(payment)>>>>

\* lines 224-341: the table is laid out, doc.build draws every flowable and
\* the bytes are returned
BuildDocument ==
    /\ pc = "inv_layout"
    /\ LayoutTable
    /\ result' = [kind |-> "pdf", flow |-> flow']
    /\ pc' = "inv_returned"
    /\ UNCHANGED <<moneyVars, edgeVars, drawVars, discount, payment,
                   header_image, doc_width,
                   table_data, image_fault>>

\* line 338: CroppedImageFitWidth.draw (lines 69-87) runs inside doc.build,
\* outside the try block of lines 128-143: what it raises leaves the call
BuildDocumentDrawFails ==
    /\ pc = "inv_layout"
    /\ HasBanner(flow)
    /\ LayoutTable
    /\ image_fault' = "draw"
    /\ result' = [kind |-> "raised"]
    /\ pc' = "inv_raised"
    /\ UNCHANGED <<moneyVars, edgeVars, drawVars, discount, payment,
                   header_image, doc_width,
                   table_data>>

NextInvoice ==
    \/ HeaderImageAbsent
    \/ HeaderImageLoaded
    \/ HeaderImageFailed
    \/ BuildTable
    \/ BuildDocument
    \/ BuildDocumentDrawFails

SpecInvoice == InitInvoice /\ [][NextInvoice]_vars

(***************************************************************************)
(* Calls of generate_edge_wrapped on bounded inputs.                       *)
(***************************************************************************)
MaxPopups == 2

PopupNames ==
    { <<"E", "d", "g", "e", " ", "A", "u", "s", "t", "i", "n">>,
      <<"E", "D", "G", "E", " ", "A", "U", "S", "T", "I", "N">>,
      <<"E", "d", "g", "e", " ", "P", "a", "t", "a", "g", "o", "n", "i", "a">>,
      <<"B", "h", "u", "t", "a", "n", ",", " ", "L", "a", "n", "n", "a">>,
      <<"P", "a", "r", "i", "s">> }

File_frame == <<"f", "r", "a", "m", "e", ".", "p", "n", "g">>
File_logo ==
    <<"e", "d", "g", "e", "-", "l", "o", "g", "o", ".", "s", "v", "g">>
File_AU == <<"A", "U", ".", "p", "n", "g">>
File_AU_AR == <<"A", "U", "-", "A", "R", ".", "p", "n", "g">>
File_AR_AU == <<"A", "R", "-", "A", "U", ".", "j", "p", "g">>
File_BH == <<"B", "H", ".", "p", "n", "g">>

\* what static/images may hold
Catalogs ==
    { {File_frame, File_logo, File_AU, File_AU_AR, File_BH},
      {File_frame, File_logo, File_AR_AU, File_AU_AR},
      {File_frame, File_logo} }

\* the width of the background frame: one too narrow for "EDGE AUSTIN",
\* then 40 px more than the text width of "EDGE AUSTIN", of
\* "EDGE AUSTIN, PARIS", and a wide one; all leave room for the padding of
\* 150 px on each side
CanvasWidths == {360, 460, 700, 2000}

\* the height of the background frame; both leave room for the padding and
\* the 200 px kept for the text
CanvasHeights == {1200, 2600}

\* the size of the source photo: square, wide, tall, and a narrow strip
PhotoSizes ==
    { [width |-> 1024, height |-> 1024],
      [width |-> 1536, height |-> 1024],
      [width |-> 1024, height |-> 1536],
      [width |-> 100, height |-> 1000] }

\* the heights of the bounding boxes of the title (font size 60) and of the
\* first caption line (font size 70), for a flat and for a tall typeface
FontHeights ==
    { [title_height |-> 44, subtitle_line_height |-> 52],
      [title_height |-> 58, subtitle_line_height |-> 68] }

\* f'/tmp/{image_id}_intermediate.png' and f'/tmp/{image_id}_final.png'
intermediate_output == "intermediate.png"
final_output == "final.png"

InitEdge ==
    /\ pc = "edge_start"
    /\ popups \in SeqsUpTo(PopupNames, MaxPopups)
    /\ catalog \in Catalogs
    /\ canvas_width \in CanvasWidths
    /\ canvas_height \in CanvasHeights
    /\ center_size = NoSize
    /\ layout = NoLayout
    /\ locations = {}
    /\ codes = {}
    /\ villages_count = 0
    /\ ai_image_path = <<>>
    /\ subtitle_lines = <<>>
    /\ fs = {}
    /\ outcome = "running"
    /\ MoneyIdle
    /\ InvoiceIdle
    /\ DrawIdle

\* lines 345-354
ResolveCodes ==
    /\ pc = "edge_start"
    /\ locations' = Locations(popups)
    /\ codes' = Codes(popups)
    /\ villages_count' = Cardinality(Locations(popups))
    /\ pc' = "edge_lookup"
    /\ UNCHANGED <<moneyVars, invoiceVars, drawVars, popups, catalog,
                   canvas_width, canvas_height, center_size, layout,
                   ai_image_path, subtitle_lines, fs, outcome>>

\* line 355, lines 318-325: a file of the catalog has exactly these codes
GetAiImage ==
    /\ pc = "edge_lookup"
    /\ \E f \in ImagesFor(codes, catalog) : ai_image_path' = f
    /\ pc' = "edge_overlay"
    /\ UNCHANGED <<moneyVars, invoiceVars, drawVars, popups, catalog,
                   canvas_width, canvas_height, center_size, layout,
                   locations, codes, villages_count, subtitle_lines, fs,
                   outcome>>

\* line 327: no file has these codes
GetAiImageRaises ==
    /\ pc = "edge_lookup"
    /\ ImagesFor(codes, catalog) = {}
    /\ outcome' = "No image found"
    /\ pc' = "edge_raised"
    /\ UNCHANGED <<moneyVars, invoiceVars, drawVars, popups, catalog,
                   canvas_width, canvas_height, center_size, layout,
                   locations, codes, villages_count, ai_image_path,
                   subtitle_lines, fs>>

\* lines 294-300: add_text_to_image opens the photo (lines 23-24), draws on
\* it and saves it at its own size as the intermediate image (line 126)
AddTextToImage ==
    /\ pc = "edge_overlay"
    /\ \E size \in PhotoSizes : center_size' = size
    /\ fs' = fs \cup {intermediate_output}
    /\ pc' = "edge_frame"
    /\ UNCHANGED <<moneyVars, invoiceVars, drawVars, popups, catalog,
                   canvas_width, canvas_height, layout,
                   locations, codes, villages_count, ai_image_path,
                   subtitle_lines, outcome>>

\* line 23: the photo cannot be opened or decoded; nothing was saved yet
AddTextToImageRaises ==
    /\ pc = "edge_overlay"
    /\ outcome' = "overlay failed"
    /\ pc' = "edge_raised"
    /\ UNCHANGED <<moneyVars, invoiceVars, drawVars, popups, catalog,
                   canvas_width, canvas_height, center_size, layout,
                   locations, codes, villages_count, ai_image_path,
                   subtitle_lines, fs>>

\* lines 304-309: create_framed_image scales and pastes the photo (resize
\* takes a size above 0 only), wraps the caption, places the text block and
\* saves the final image (line 257)
CreateFramedImage ==
    /\ pc = "edge_frame"
    /\ new_width(center_size, canvas_width, canvas_height) > 0
    /\ new_height(center_size, canvas_width, canvas_height) > 0
    /\ LET lines == SubtitleLines(popups, canvas_width)
       IN  /\ subtitle_lines' = lines
           /\ \E font \in FontHeights :
                 layout' = FrameLayout(center_size, canvas_width,
                                       canvas_height, font.title_height,
                                       font.subtitle_line_height,
                                       Len(lines))
    /\ fs' = fs \cup {final_output}
    /\ pc' = "edge_remove"
    /\ UNCHANGED <<moneyVars, invoiceVars, drawVars, popups, catalog,
                   canvas_width, canvas_height, center_size,
                   locations, codes, villages_count, ai_image_path, outcome>>

\* lines 140-159: the intermediate image or the background frame cannot be
\* opened, or resize refuses the size; the exception leaves _generate_edge_wrapped and line 364 is
\* never reached
CreateFramedImageRaises ==
    /\ pc = "edge_frame"
    /\ outcome' = "frame failed"
    /\ pc' = "edge_raised"
    /\ UNCHANGED <<moneyVars, invoiceVars, drawVars, popups, catalog,
                   canvas_width, canvas_height, center_size, layout,
                   locations, codes, villages_count, ai_image_path,
                   subtitle_lines, fs>>

\* lines 364-365: os.remove(intermediate_output); return final_output
RemoveIntermediate ==
    /\ pc = "edge_remove"
    /\ fs' = fs \ {intermediate_output}
    /\ outcome' = final_output
    /\ pc' = "edge_returned"
    /\ UNCHANGED <<moneyVars, invoiceVars, drawVars, popups, catalog,
                   canvas_width, canvas_height, center_size, layout,
                   locations, codes, villages_count, ai_image_path,
                   subtitle_lines>>

NextEdge ==
    \/ ResolveCodes
    \/ GetAiImage
    \/ GetAiImageRaises
    \/ AddTextToImage
    \/ AddTextToImageRaises
    \/ CreateFramedImage
    \/ CreateFramedImageRaises
    \/ RemoveIntermediate

SpecEdge == InitEdge /\ [][NextEdge]_vars


(***************************************************************************)
(* Calls of CroppedImageFitWidth.draw on bounded inputs.                   *)
(***************************************************************************)
\* the flowable is built with width = doc.width and height = 46 mm (lines
\* 137-138); the class takes any box
BoxHeights == {10 * mm, 46 * mm}

Boxes == [box_w : DocWidths, box_h : BoxHeights]

\* what self.reader.getSize() may return
ImageSizes ==
    {[iw |-> 0, ih |-> 0]}
        \cup [iw : {1, 100, 640, 1000}, ih : {1, 46, 480, 1000}]

InitDraw ==
    /\ pc = "draw"
    /\ box \in Boxes
    /\ image_size \in ImageSizes
    /\ drawn = <<>>
    /\ MoneyIdle
    /\ InvoiceIdle
    /\ EdgeIdle

\* lines 72-73: an image without width is not drawn
DrawNothing ==
    /\ pc = "draw"
    /\ image_size.iw = 0
    /\ pc' = "draw_done"
    /\ UNCHANGED <<moneyVars, invoiceVars, edgeVars, drawVars>>

\* lines 74-87
Draw ==
    /\ pc = "draw"
    /\ image_size.iw # 0
    /\ drawn' = <<DrawOps(box, image_size)>>
    /\ pc' = "draw_done"
    /\ UNCHANGED <<moneyVars, invoiceVars, edgeVars, box, image_size>>

\* line 86: drawImage raises on image data it cannot decode
DrawRaises ==
    /\ pc = "draw"
    /\ image_size.iw # 0
    /\ pc' = "draw_raised"
    /\ UNCHANGED <<moneyVars, invoiceVars, edgeVars, drawVars>>

NextDraw ==
    \/ DrawNothing
    \/ Draw
    \/ DrawRaises

SpecDraw == InitDraw /\ [][NextDraw]_vars
(***************************************************************************)
(* Properties of format_currency.                                          *)
(***************************************************************************)
\* the position of the first c in s, 0 when there is none
FirstIndex(s, c) ==
    IF \E i \in 1..Len(s) : s[i] = c
    THEN CHOOSE i \in 1..Len(s) : s[i] = c /\ \A j \in 1..(i - 1) : s[j] # c
    ELSE 0

\* digits in groups of three separated by '.', the first group of 1 to 3
GroupedInThrees(s) ==
    /\ Len(s) >= 1
    /\ Len(s) % 4 # 0
    /\ \A i \in 1..Len(s) :
         IF (Len(s) - i + 1) % 4 = 0 THEN s[i] = "." ELSE IsDigit(s[i])

DecimalsOf(out) == Len(out) - FirstIndex(out, ",")

\* C5: format_currency gives exactly 8 digits after the ',' when the code
\* uppercased is BTC or ETH and exactly 2 otherwise, and the integer part is
\* grouped in threes with '.'.
C5_DecimalsAndGrouping ==
    pc = "money_done" =>
        LET comma  == FirstIndex(formatted, ",")
            crypto == \E c \in {<<"B", "T", "C">>, <<"E", "T", "H">>} :
                          /\ Len(c) = Len(currency)
                          /\ \A i \in 1..Len(c) :
                               currency[i] \in {c[i], LowerChar(c[i])}
        IN  /\ comma > 0
            /\ DecimalsOf(formatted) = (IF crypto THEN 8 ELSE 2)
            /\ \A i \in (comma + 1)..Len(formatted) : IsDigit(formatted[i])
            /\ GroupedInThrees(SubSeq(formatted, 1, comma - 1))

\* a lower-case crypto code and a value of more than six integer digits
C5_Witness ==
    /\ pc = "money_done"
    /\ currency = <<"b", "t", "c">>
    /\ value = [num |-> 1234567, den |-> 1]
    /\ Len(formatted) = 18

(***************************************************************************)
(* Properties of generate_invoice_pdf.                                     *)
(***************************************************************************)
InvoiceEnded == pc \in {"inv_returned", "inv_raised"}

TableBuilt == pc \in {"inv_layout", "inv_returned", "inv_raised"}

DiscountSupplied == discount # <<>>

RateAboveOne == payment.rate.num > payment.rate.den

\* the sum of the role minimums of the present columns
MinSum ==
    qty_min + desc_min + unit_min + amount_min
        + (IF DiscountSupplied THEN discount_min ELSE 0)
        + (IF RateAboveOne THEN rate_min ELSE 0)

\* the description column came out below its minimum as the plain residual
FallbackRan ==
    LET w == InitialWidths(measured, DiscountSupplied, RateAboveOne)
    IN  RLt(RSub(Rat(doc_width), OtherSum(w)), Rat(desc_min))

\* C1: when the usable width is at least the sum of the role minimums of the
\* present columns, the final col_widths sum to exactly the usable width,
\* with or without the scaling fallback.
C1_WidthsSumToW ==
    (InvoiceEnded /\ MinSum <= doc_width) =>
        RSum(col_widths) = Rat(doc_width)

\* the fallback ran with both optional columns present
C1_Witness ==
    /\ pc = "inv_returned"
    /\ MinSum <= doc_width
    /\ DiscountSupplied /\ RateAboveOne
    /\ FallbackRan
    /\ Len(col_widths) = 6

\* the role minimum of each entry of col_widths, in its order
RoleMinimums ==
    <<qty_min, desc_min, unit_min>>
        \o (IF DiscountSupplied THEN <<discount_min>> ELSE <<>>)
        \o (IF RateAboveOne THEN <<rate_min>> ELSE <<>>)
        \o <<amount_min>>

\* C2: when the role minimums of the present columns fit in the usable
\* width, every column of the final col_widths is at least its role minimum,
\* also after the scaling fallback.
C2_EveryColumnAtLeastMinimum ==
    (InvoiceEnded /\ MinSum <= doc_width) =>
        \A i \in 1..Len(col_widths) :
            RLe(Rat(RoleMinimums[i]), col_widths[i])

\* C3: the header row is Quantity, Description, Unit Price, then Discount
\* iff a discount was supplied (0 included), then Rate iff rate > 1, then
\* Amount.
C3_HeaderRow ==
    TableBuilt =>
        table_data[1] =
            IF DiscountSupplied /\ RateAboveOne
            THEN <<"Quantity", "Description", "Unit Price", "Discount",
                   "Rate", "Amount">>
            ELSE IF DiscountSupplied
            THEN <<"Quantity", "Description", "Unit Price", "Discount",
                   "Amount">>
            ELSE IF RateAboveOne
            THEN <<"Quantity", "Description", "Unit Price", "Rate",
                   "Amount">>
            ELSE <<"Quantity", "Description", "Unit Price", "Amount">>

\* a discount of 0 was supplied and the rate is above 1: six headers
C3_Witness ==
    /\ TableBuilt
    /\ discount = <<0>>
    /\ RateAboveOne
    /\ Len(table_data[1]) = 6

\* the payment of the end-to-end example: EUR, rate 0.92, one item "Pass" of
\* 100.00 USD and quantity 2, no discount
ExamplePayment ==
    /\ payment.currency = <<"E", "U", "R">>
    /\ payment.rate = [num |-> 23, den |-> 25]
    /\ payment.products_snapshot =
           << [product_name |-> <<"P", "a", "s", "s">>,
               product_price |-> Rat(100), quantity |-> 2] >>
    /\ discount = <<>>

C9_ImageFailureNeverAborts ==
    (InvoiceEnded /\ image_fault # "none") =>
        /\ result.kind = "pdf"
        /\ ~HasBanner(result.flow)
        /\ \A part \in {"title", "header_tbl", "table"} :
               \E i \in 1..Len(result.flow) : result.flow[i] = part

TotalLine == flow[Len(flow)]

Text_Total == <<"T", "o", "t", "a", "l", ":", " ">>

\* payment.amount, divided by payment.rate when the rate is above 1
AmountShown ==
    IF RateAboveOne THEN RDiv(payment.amount, payment.rate)
    ELSE payment.amount

\* C14: the total line shows payment.amount / payment.rate when the rate is
\* above 1 and payment.amount otherwise, formatted by format_currency for
\* the payment's currency; the line items, their quantities and the discount
\* have no part in it.
C14_TotalFromPaymentAmount ==
    pc = "inv_returned" =>
        /\ TotalLine[1] = "total"
        /\ TotalLine[2] =
               Text_Total
                   \o format_currency(AmountShown, payment.currency)
                   \o <<" ">> \o payment.currency
        /\ (payment.amount = Rat(250)
                /\ payment.currency = <<"E", "U", "R">>) =>
               TotalLine[2] =
                   Text_Total
                       \o (IF RateAboveOne
                           THEN <<"2", "0", "0", ",", "0", "0">>
                           ELSE <<"2", "5", "0", ",", "0", "0">>)
                       \o <<" ", "E", "U", "R">>

\* a converted total next to one discounted line item of another amount
C14_Witness ==
    /\ pc = "inv_returned"
    /\ RateAboveOne
    /\ discount = <<10>>
    /\ Len(payment.products_snapshot) = 1
    /\ payment.currency = <<"E", "U", "R">>
    /\ TotalLine[2] =
           Text_Total \o <<"2", "0", "0", ",", "0", "0", " ", "E", "U", "R">>

\* max(role minimum, widest measured cell + 10 points)
BaseWidth(minimum, widest) ==
    IF widest + TenPoints > minimum THEN widest + TenPoints ELSE minimum

\* the unscaled widths of the non-description columns; 0 for an absent one
Base ==
    [ qty_w      |-> BaseWidth(qty_min, measured.max_qty),
      unit_w     |-> BaseWidth(unit_min, measured.max_unit),
      amount_w   |-> BaseWidth(amount_min, measured.max_amount),
      discount_w |-> IF DiscountSupplied
                     THEN BaseWidth(discount_min, measured.max_discount)
                     ELSE 0,
      rate_w     |-> IF RateAboveOne
                     THEN BaseWidth(rate_min, measured.max_rate)
                     ELSE 0 ]

OtherColumns == {"qty_w", "unit_w", "amount_w", "discount_w", "rate_w"}

PresentColumns ==
    {"qty_w", "unit_w", "amount_w"}
        \cup (IF DiscountSupplied THEN {"discount_w"} ELSE {})
        \cup (IF RateAboveOne THEN {"rate_w"} ELSE {})

SumOf(base) ==
    base.qty_w + base.unit_w + base.amount_w + base.discount_w + base.rate_w

BaseSum == SumOf(Base)

\* ten times max(W - description minimum, 0.6 * W)
TenTargets ==
    IF 10 * (doc_width - desc_min) > 6 * doc_width
    THEN 10 * (doc_width - desc_min) ELSE 6 * doc_width

\* C17: when W minus the sum of the other widths is below the description
\* minimum, every present non-description column is its unscaled width
\* times target / sum with target = max(W - description minimum, 0.6 * W):
\* the ratios between them are kept, they sum to target, and the description
\* width is max(description minimum, W - target). Otherwise no column is
\* scaled: each is max(role minimum, widest measured cell + 10) and the
\* description takes the residual.
C17_FallbackScalesEvenly ==
    InvoiceEnded =>
        LET base    == Base
            sum     == SumOf(base)
            target  == Norm(TenTargets, 10)
            present == PresentColumns
        IN  IF doc_width - sum < desc_min /\ sum > 0
            THEN /\ \A c \in present :
                        RMul(widths[c], Rat(10 * sum))
                            = Rat(base[c] * TenTargets)
                 /\ \A c \in OtherColumns \ present : widths[c] = Rat(0)
                 /\ \A c, d \in present :
                        RDiv(widths[c], widths[d]) = Norm(base[c], base[d])
                 /\ OtherSum(widths) = target
                 /\ widths.desc_w
                        = RMax(Rat(desc_min), RSub(Rat(doc_width), target))
            ELSE /\ \A c \in OtherColumns : widths[c] = Rat(base[c])
                 /\ widths.desc_w = Rat(doc_width - sum)

\* the fallback ran on the page of the source with the discount column
\* present and the rate column absent
C17_Witness ==
    /\ pc = "inv_returned"
    /\ doc_width = 180 * mm
    /\ doc_width - BaseSum < desc_min
    /\ DiscountSupplied /\ ~RateAboveOne
    /\ RLt(widths.qty_w, Rat(Base.qty_w))

LastOf(s) == s[Len(s)]

\* C18: every body row has as many cells as the header row; the cell at
\* discount_idx is the percentage and lies under Discount, the cell at
\* rate_idx is the rate text and lies under Rate, the cell at amount_idx is
\* the last one and lies under Amount; col_widths has the same length and
\* holds the widths of the same columns at the same positions.
C18_CellsUnderTheirHeaders ==
    LET headers == table_data[1]
        d_idx   == discount_idx(discount, payment)
        r_idx   == rate_idx(discount, payment)
        a_idx   == amount_idx(discount, payment)
    IN  /\ TableBuilt =>
            /\ headers[1] = "Quantity"
            /\ headers[2] = "Description"
            /\ headers[3] = "Unit Price"
            /\ DiscountSupplied <=> d_idx # <<>>
            /\ RateAboveOne <=> r_idx # <<>>
            /\ d_idx # <<>> => headers[d_idx[1] + 1] = "Discount"
            /\ r_idx # <<>> => headers[r_idx[1] + 1] = "Rate"
            /\ headers[a_idx + 1] = "Amount"
            /\ a_idx + 1 = Len(headers)
            /\ \A k \in 2..Len(table_data) :
                 LET row  == table_data[k]
                     item == payment.products_snapshot[k - 1]
                 IN  /\ Len(row) = Len(headers)
                     /\ row[1] = IntToText(item.quantity)
                     /\ row[3] = UnitPriceCell(item)
                     /\ d_idx # <<>> =>
                            /\ LastOf(row[d_idx[1] + 1]) = "%"
                            /\ row[d_idx[1] + 1] = DiscountCell(discount)
                     /\ r_idx # <<>> =>
                            /\ SubSeq(row[r_idx[1] + 1], 1, 2) = <<"1", " ">>
                            /\ row[r_idx[1] + 1] = RateCell(payment)
                     /\ SubSeq(row[a_idx + 1],
                               Len(row[a_idx + 1])
                                   - Len(payment.currency) + 1,
                               Len(row[a_idx + 1])) = payment.currency
                     /\ IsDigit(row[a_idx + 1][1])
        /\ InvoiceEnded =>
            /\ Len(col_widths) = Len(headers)
            /\ col_widths[1] = widths.qty_w
            /\ col_widths[2] = widths.desc_w
            /\ col_widths[3] = widths.unit_w
            /\ d_idx # <<>> => col_widths[d_idx[1] + 1] = widths.discount_w
            /\ r_idx # <<>> => col_widths[r_idx[1] + 1] = widths.rate_w
            /\ col_widths[a_idx + 1] = widths.amount_w

\* both optional columns are present next to one line item
C18_Witness ==
    /\ pc = "inv_returned"
    /\ DiscountSupplied /\ RateAboveOne
    /\ Len(table_data) = 2
    /\ Len(table_data[2]) = 6
    /\ Len(col_widths) = 6

(***************************************************************************)
(* Properties of CroppedImageFitWidth.draw.                                *)
(***************************************************************************)
DrawReturned == pc = "draw_done"

\* the drawImage call is at offset 0 with the width of the box, the height
\* ih * W / iw and the vertical offset (H - ih * W / iw) / 2, inside the
\* clip rectangle (0, 0, W, H)
DrawnToFitWidth ==
    /\ Len(drawn) = 1
    /\ drawn[1].clip = <<0, 0, box.box_w, box.box_h>>
    /\ drawn[1].dx = 0
    /\ drawn[1].width = Rat(box.box_w)
    /\ RMul(drawn[1].height, Rat(image_size.iw))
           = Rat(image_size.ih * box.box_w)
    /\ RAdd(RAdd(drawn[1].dy, drawn[1].dy), drawn[1].height)
           = Rat(box.box_h)

\* drawn width : drawn height = iw : ih
NativeRatioKept ==
    RMul(drawn[1].width, Rat(image_size.ih))
        = RMul(drawn[1].height, Rat(image_size.iw))

\* C13 as stated: for every box and every native size, draw draws the image
\* at offset 0 with width W, height ih * W / iw and vertical offset
\* (H - ih * W / iw) / 2, clipped to (0, 0, W, H), at the native ratio.
C13_DrawsForEverySize ==
    DrawReturned => (DrawnToFitWidth /\ NativeRatioKept)

\* C13 amended: for every box and every native size with iw > 0, draw draws
\* the image as stated; for iw = 0 it returns without drawing anything.
C13_DrawsWhenImageHasWidth ==
    DrawReturned =>
        IF image_size.iw > 0
        THEN DrawnToFitWidth /\ NativeRatioKept
        ELSE drawn = <<>>

\* the scaled image is higher than the box: it is cropped at top and bottom
C13_Witness ==
    /\ DrawReturned
    /\ image_size.iw > 0
    /\ Len(drawn) = 1
    /\ drawn[1].dy.num < 0
    /\ box.box_w = 180 * mm
    /\ box.box_h = 46 * mm
(***************************************************************************)
(* Properties of create_framed_image and generate_edge_wrapped.            *)
(***************************************************************************)
CaptionDrawn == pc \in {"edge_remove", "edge_returned"}

EdgeEnded == pc \in {"edge_returned", "edge_raised"}

\* the line without the ',' that closes every line but the last
TokensOfLine(i) ==
    LET line == subtitle_lines[i]
        text == IF i < Len(subtitle_lines)
                THEN SubSeq(line, 1, Len(line) - 1) ELSE line
    IN  Split(text, <<",", " ">>)

\* C6: every line of subtitle_lines is at most canvas_width - 40 wide, unless
\* it is a single token that is wider than that by itself.
C6_LinesFit ==
    CaptionDrawn =>
        \A i \in 1..Len(subtitle_lines) :
            \/ TextWidth(subtitle_lines[i]) <= canvas_width - 40
            \/ /\ Len(TokensOfLine(i)) = 1
               /\ TextWidth(TokensOfLine(i)[1]) > canvas_width - 40

\* C7 as stated: the lines joined with ', ' are the uppercased caption.
C7_JoinWithCommaSpace ==
    CaptionDrawn =>
        Join(subtitle_lines, <<",", " ">>)
            = Upper(Join(popups, <<",", " ">>))

\* C7 amended: every line but the last ends with the ',' of its separator,
\* so the lines joined with one space are the uppercased caption; joined
\* with ', ' they are the caption when there is one line.
C7_JoinWithSpace ==
    CaptionDrawn =>
        /\ Join(subtitle_lines, <<" ">>) = Upper(Join(popups, <<",", " ">>))
        /\ \A i \in 1..(Len(subtitle_lines) - 1) :
               /\ Len(subtitle_lines[i]) >= 1
               /\ subtitle_lines[i][Len(subtitle_lines[i])] = ","
        /\ Len(subtitle_lines) = 1 =>
               Join(subtitle_lines, <<",", " ">>)
                   = Upper(Join(popups, <<",", " ">>))

\* the caption was wrapped into two lines or more
C7_Witness ==
    /\ CaptionDrawn
    /\ Len(popups) = 2
    /\ Len(subtitle_lines) >= 2

\* C8: when generate_edge_wrapped has ended, by returning or by raising, the
\* intermediate file it wrote no longer exists.
C8_NoIntermediateLeft ==
    EdgeEnded => intermediate_output \notin fs


(***************************************************************************)
(* Properties of the photo lookup of generate_edge_wrapped.                *)
(***************************************************************************)
CodesResolved == pc # "edge_start"

\* the '-'-separated parts of what precedes the first '.' of a file name
StemParts(name) ==
    LET stem  == Split(name, <<".">>)[1]
        parts == Split(stem, <<"-">>)
    IN  {parts[i] : i \in 1..Len(parts)}

NoFileForCodes == \A f \in catalog : StemParts(f) # codes

\* C11: a photo is picked only when it is a file of the catalog whose stem
\* parts are, as a set, the resolved codes; when the catalog has no such
\* file, the empty code set included, the call ends with 'No image found'
\* and has written neither the intermediate nor the final image.
C11_PhotoOnlyForExactCodeSet ==
    /\ ai_image_path # <<>> =>
           /\ ai_image_path \in catalog
           /\ StemParts(ai_image_path) = codes
    /\ (CodesResolved /\ pc # "edge_lookup" /\ NoFileForCodes) =>
           /\ pc = "edge_raised"
           /\ outcome = "No image found"
           /\ fs = {}
    /\ outcome = "No image found" => NoFileForCodes

\* no requested name is in the table: the code set is empty and the call
\* has raised
C11_Witness ==
    /\ pc = "edge_raised"
    /\ outcome = "No image found"
    /\ Len(popups) >= 1
    /\ codes = {}
    /\ fs = {}

\* the table names that occur in a requested name, compared in upper case
RaisedNames == [i \in 1..Len(popups_map) |-> Upper(popups_map[i][1])]

OccurringEntries(popup) ==
    LET raised == Upper(popup)
    IN  {i \in 1..Len(popups_map) : Contains(raised, RaisedNames[i])}

\* the first table entry whose name occurs in the requested name, if any
Contribution(popup) ==
    LET entries == OccurringEntries(popup)
    IN  {i \in entries : \A j \in entries : i <= j}

Contributions == UNION {Contribution(popups[k]) : k \in 1..Len(popups)}

Name_EdgeAustin == <<"E", "d", "g", "e", " ", "A", "u", "s", "t", "i", "n">>
Name_EDGEAUSTIN == <<"E", "D", "G", "E", " ", "A", "U", "S", "T", "I", "N">>
Name_EdgePatagonia ==
    <<"E", "d", "g", "e", " ", "P", "a", "t", "a", "g", "o", "n", "i", "a">>

\* C12: every requested name contributes the code of the first table entry
\* whose name occurs in it, letter case ignored; codes is the set of these
\* codes and villages_count the number of distinct matched table names.
\* ["Edge Austin", "Edge Patagonia"] gives {AU, AR} and 2; one location
\* named twice, in any letter case, counts once.
C12_CodesAndCount ==
    CodesResolved =>
        /\ LET entries == Contributions
           IN  /\ codes = {popups_map[i][2] : i \in entries}
               /\ locations = {popups_map[i][1] : i \in entries}
               /\ villages_count = Cardinality(entries)
        /\ popups = <<Name_EdgeAustin, Name_EdgePatagonia>> =>
               /\ codes = {<<"A", "U">>, <<"A", "R">>}
               /\ villages_count = 2
        /\ popups \in {<<Name_EdgeAustin, Name_EDGEAUSTIN>>,
                       <<Name_EdgeAustin, Name_EdgeAustin>>} =>
               /\ codes = {<<"A", "U">>}
               /\ villages_count = 1

\* a requested name in which two table names occur, next to a second name
C12_Witness ==
    /\ CodesResolved
    /\ Len(popups) = 2
    /\ \E k \in 1..Len(popups) : Cardinality(OccurringEntries(popups[k])) = 2
    /\ villages_count = 2

(***************************************************************************)
(* Properties of the geometry of create_framed_image.                      *)
(***************************************************************************)
\* the photo has as much room on its left as on its right, up to the pixel
\* of an odd difference
PastedCentered ==
    LET left  == layout.x
        right == canvas_width - layout.new_width - layout.x
    IN  right - left \in {0, 1}

\* C15 as stated: the photo is pasted horizontally centered and its top
\* offset y is its left padding x = (canvas_width - new_width) // 2.
C15_TopOffsetIsSidePadding ==
    CaptionDrawn =>
        /\ PastedCentered
        /\ layout.x = (canvas_width - layout.new_width) \div 2
        /\ layout.y = layout.x

\* C15 amended: the photo is pasted horizontally centered, at the left
\* padding x = (canvas_width - new_width) // 2, and its top offset y is
\* x - 5.
C15_TopOffsetIsSidePaddingLessFive ==
    CaptionDrawn =>
        /\ PastedCentered
        /\ layout.x = (canvas_width - layout.new_width) \div 2
        /\ layout.y = layout.x - 5

\* a photo bound by the available height: its side padding is above 150
C15_Witness ==
    /\ CaptionDrawn
    /\ layout.new_height = canvas_height - 500
    /\ layout.new_width < canvas_width - 300
    /\ layout.x > 150
    /\ layout.y = layout.x - 5

\* C16: the block of the title and of all caption lines starts at or below
\* the bottom edge of the pasted photo, y + new_height, and ends at or above
\* the bottom of the canvas.
C16_TextBelowPhotoInsideCanvas ==
    CaptionDrawn =>
        /\ layout.text_start_y >= layout.y + layout.new_height
        /\ layout.text_start_y + layout.total_text_height <= canvas_height
====
